---- MODULE Spec2Model ----
(***************************************************************************)
(* A model of glukhankov/2023-2-level-ctlr:                                *)
(*   lab_6_pipeline/pipeline.py  CorpusManager, PatternSearchPipeline      *)
(*   lab_5_scrapper/scrapper.py  Config, Crawler, prepare_environment      *)
(* Each part of the program has its own specification over the shared      *)
(* variables; the variables of the other parts stay at their idle values.  *)
(***************************************************************************)
EXTENDS Integers, Sequences, FiniteSets, TLC

VARIABLES
    \* ---- CorpusManager (pipeline.py) ----
    pathKind,    \* what path_to_raw_txt_data is on disk: "missing", "file", "dir"
    files,       \* the *_raw.txt files of the directory: name -> st_size
    others,      \* TRUE iff the directory holds entries not matching *_raw.txt
    pc,          \* position inside CorpusManager.__init__ / after it
    err,         \* the exception __init__ ended with, or None
    raw_files,   \* local of _validate_dataset: the sorted glob result
    ind,         \* local of _validate_dataset: the enumerate index
    scanned,     \* files _scan_dataset has gone through
    storage,     \* self._storage: article id -> Article
    returned,    \* TRUE iff a caller holds the object get_articles() returned
    callerOps,   \* number of operations the caller made on that object
    \* ---- PatternSearchPipeline (pipeline.py) ----
    doc,         \* the CoNLLUDocument given to _make_graphs
    graphs,      \* what _make_graphs returned
    doc_graphs,  \* the list of graphs given to _find_pattern
    matches,     \* what _find_pattern returned
    pos,         \* the pattern given to PatternSearchPipeline: <<root, relation, child>>
    ppc,         \* "idle", "made" (after _make_graphs), "found" (after _find_pattern)
    \* ---- Config (scrapper.py) ----
    config,      \* self.config: the ConfigDTO read from the file
    cpc,         \* "loaded", "validated"
    cerr,        \* the exception _validate_config_content raised, or None
    \* ---- prepare_environment (scrapper.py) ----
    fs0,         \* the file system before the call
    fs,          \* the file system: path -> "dir" or "file"
    epc,         \* "call", "mkdir", "done", "failed"
    eerr,        \* the exception prepare_environment ended with, or None
    \* ---- Crawler (scrapper.py) ----
    urls,        \* Crawler.urls
    fpc,         \* position in find_articles: "new", "while", "for", "returned", "failed"
    seedIdx,     \* index of the seed the for loop of find_articles is at
    response     \* the response of the last seed request, or None

corpusVars == <<pathKind, files, others, pc, err, raw_files, ind, scanned,
                storage, returned, callerOps>>

patternVars == <<doc, graphs, doc_graphs, matches, pos, ppc>>
configVars == <<config, cpc, cerr>>
envVars == <<fs0, fs, epc, eerr>>

crawlerVars == <<urls, fpc, seedIdx, response>>

vars == <<corpusVars, patternVars, configVars, envVars, crawlerVars>>

None == "None"

-----------------------------------------------------------------------------
(* Bounds                                                                  *)

\* largest article id a file name of the modelled directories carries
MaxId == 10
\* largest number of zero-length files in a modelled directory
MaxEmpty == 1
\* largest number of operations a caller makes on the returned mapping
MaxCallerOps == 2

\* largest number of sentences of a document / of graphs in a list
MaxSentences == 2
\* largest number of tokens of a sentence
MaxTokens == 2
\* how far beyond 1..MaxArticles the modelled total_articles values reach
OverRange == 2
\* largest number of seed urls of a modelled config
MaxSeeds == 2

\* largest total number of articles of a config the crawler is run with
MaxCrawl == 3

\* ids that also occur with a zero-padded file name ("01_raw.txt")
PaddedIds == {1}

-----------------------------------------------------------------------------
(* File names.  A raw file "<digits>_raw.txt" is modelled by its digits.   *)

RECURSIVE Decimal(_)
\* str(i): the decimal digits of a positive integer, most significant first
Decimal(i) == IF i < 10 THEN <<i>> ELSE Decimal(i \div 10) \o <<i % 10>>

RawNames == {Decimal(i) : i \in 1..MaxId} \cup {<<0>> \o Decimal(i) : i \in PaddedIds}

RECURSIVE ParseInt(_)
\* int(digits)
ParseInt(ds) ==
    IF Len(ds) = 0 THEN 0
    ELSE 10 * ParseInt(SubSeq(ds, 1, Len(ds) - 1)) + ds[Len(ds)]

\* core_utils get_article_id_from_filepath: the integer before "_raw.txt"
get_article_id_from_filepath(name) == ParseInt(name)

\* the code points of the file name up to and including the "_" of "_raw.txt"
\* ('0'..'9' are 48..57, '_' is 95); the rest of the name is the same for all
CodePoints(name) == [i \in 1..(Len(name) + 1) |->
                        IF i <= Len(name) THEN 48 + name[i] ELSE 95]

RECURSIVE SeqLess(_, _)
\* str.__lt__: lexicographic order on code points
SeqLess(a, b) ==
    IF Len(b) = 0 THEN FALSE
    ELSE IF Len(a) = 0 THEN TRUE
    ELSE IF a[1] # b[1] THEN a[1] < b[1]
    ELSE SeqLess(Tail(a), Tail(b))

\* PurePath.__lt__ for two paths of the same directory
PathLess(a, b) == SeqLess(CodePoints(a), CodePoints(b))

RECURSIVE sorted(_)
\* sorted(paths): ascending in PathLess
sorted(S) ==
    IF S = {} THEN <<>>
    ELSE LET m == CHOOSE x \in S : \A y \in S \ {x} : PathLess(x, y)
         IN  <<m>> \o sorted(S \ {m})

\* path.glob("*_raw.txt")
glob == IF pathKind = "dir" THEN DOMAIN files ELSE {}

\* path.exists(), path.is_dir(), any(path.iterdir())
PathExists == pathKind # "missing"
PathIsDir == pathKind = "dir"
AnyEntry == DOMAIN files # {} \/ others

\* from_raw(file, Article(None, article_id)): the article with the file's text
Article(article_id, name) ==
    [url |-> None, article_id |-> article_id, text |-> <<name, files[name]>>]

\* dict[k] = v and del dict[k]
DictSet(d, k, v) == [x \in DOMAIN d \cup {k} |-> IF x = k THEN v ELSE d[x]]
DictDel(d, k) == [x \in DOMAIN d \ {k} |-> d[x]]

-----------------------------------------------------------------------------
(* CorpusManager.__init__                                                  *)

\* the calls __init__ makes after setting its fields, in order
InitSequenceSwapped == <<"scan", "validate">>
InitSequence == <<"validate", "scan">>

PhaseStart(name) == IF name = "validate" THEN "v_exists" ELSE "s_loop"

\* where control goes when the phase called `name` returns
AfterPhase(name) ==
    LET i == CHOOSE j \in 1..Len(InitSequence) : InitSequence[j] = name
    IN  IF i < Len(InitSequence) THEN PhaseStart(InitSequence[i + 1]) ELSE "done"

\* the variables of the other parts of the program
CorpusOnly == UNCHANGED <<patternVars, configVars, envVars, crawlerVars>>

Raise(e) == /\ pc' = "failed"
            /\ err' = e

\* lines 44-45: self._storage = {}
Construct ==
    /\ pc = "new"
    /\ storage' = <<>>
    /\ pc' = PhaseStart(InitSequence[1])
    /\ UNCHANGED <<pathKind, files, others, err, raw_files, ind, scanned,
                   returned, callerOps>>
    /\ CorpusOnly

\* lines 53-54
ValidateExistsSkipped ==
    /\ pc = "v_exists"
    /\ pc' = "v_isdir"
    /\ UNCHANGED <<pathKind, files, others, err, raw_files, ind, scanned,
                   storage, returned, callerOps>>
    /\ CorpusOnly

ValidateExists ==
    /\ pc = "v_exists"
    /\ IF ~PathExists THEN Raise("FileNotFoundError")
       ELSE pc' = "v_isdir" /\ UNCHANGED err
    /\ UNCHANGED <<pathKind, files, others, raw_files, ind, scanned,
                   storage, returned, callerOps>>
    /\ CorpusOnly

\* lines 55-56
ValidateIsDir ==
    /\ pc = "v_isdir"
    /\ IF ~PathIsDir THEN Raise("NotADirectoryError")
       ELSE pc' = "v_any" /\ UNCHANGED err
    /\ UNCHANGED <<pathKind, files, others, raw_files, ind, scanned,
                   storage, returned, callerOps>>
    /\ CorpusOnly

\* lines 57-58
ValidateNotEmpty ==
    /\ pc = "v_any"
    /\ IF ~AnyEntry THEN Raise("EmptyDirectoryError")
       ELSE pc' = "v_glob" /\ UNCHANGED err
    /\ UNCHANGED <<pathKind, files, others, raw_files, ind, scanned,
                   storage, returned, callerOps>>
    /\ CorpusOnly

\* line 60
ValidateGlob ==
    /\ pc = "v_glob"
    /\ raw_files' = sorted(glob)
    /\ ind' = 1
    /\ pc' = "v_loop"
    /\ UNCHANGED <<pathKind, files, others, err, scanned, storage, returned,
                   callerOps>>
    /\ CorpusOnly

\* the test of lines 62-63 on the file at index i
FileInconsistentIdOnly(i) == i # get_article_id_from_filepath(raw_files[i])

FileInconsistent(i) ==
    \/ i # get_article_id_from_filepath(raw_files[i])
    \/ files[raw_files[i]] = 0

\* lines 61-64: one iteration of the loop, or its end
ValidateFile ==
    /\ pc = "v_loop"
    /\ IF ind > Len(raw_files)
       THEN /\ pc' = AfterPhase("validate")
            /\ UNCHANGED <<err, ind>>
       ELSE IF FileInconsistent(ind)
            THEN Raise("InconsistentDatasetError") /\ UNCHANGED ind
            ELSE /\ ind' = ind + 1
                 /\ UNCHANGED <<pc, err>>
    /\ UNCHANGED <<pathKind, files, others, raw_files, scanned, storage,
                   returned, callerOps>>
    /\ CorpusOnly

\* lines 70-72: one iteration of the loop (glob gives the files in the
\* directory's own order, which is any order), or its end
ScanFile ==
    /\ pc = "s_loop"
    /\ IF scanned = glob
       THEN /\ pc' = AfterPhase("scan")
            /\ UNCHANGED <<scanned, storage>>
       ELSE \E file \in glob \ scanned :
                LET article_id == get_article_id_from_filepath(file)
                IN  /\ storage' = DictSet(storage, article_id, Article(article_id, file))
                    /\ scanned' = scanned \cup {file}
                    /\ UNCHANGED pc
    /\ UNCHANGED <<pathKind, files, others, err, raw_files, ind, returned,
                   callerOps>>
    /\ CorpusOnly

\* lines 74-81: return self._storage (the dict itself, not a copy)
get_articles ==
    /\ pc = "done"
    /\ returned' = TRUE
    /\ UNCHANGED <<pathKind, files, others, pc, err, raw_files, ind, scanned,
                   storage, callerOps>>
    /\ CorpusOnly

\* the ids a caller may use as keys
CallerKeys == 1..(MaxId + 1)

\* what a caller may do with the dict it was given: d[k] = v (a new key or a
\* replaced one) and del d[k]; the dict is self._storage
CallerSet ==
    /\ returned
    /\ callerOps < MaxCallerOps
    /\ \E k \in CallerKeys :
           storage' = DictSet(storage, k, [url |-> None, article_id |-> k, text |-> <<>>])
    /\ callerOps' = callerOps + 1
    /\ UNCHANGED <<pathKind, files, others, pc, err, raw_files, ind, scanned,
                   returned>>
    /\ CorpusOnly

CallerDel ==
    /\ returned
    /\ callerOps < MaxCallerOps
    /\ \E k \in DOMAIN storage : storage' = DictDel(storage, k)
    /\ callerOps' = callerOps + 1
    /\ UNCHANGED <<pathKind, files, others, pc, err, raw_files, ind, scanned,
                   returned>>
    /\ CorpusOnly

EmptyCount(f) == Cardinality({n \in DOMAIN f : f[n] = 0})

IdleCorpus ==
    /\ pathKind = "missing"
    /\ files = <<>>
    /\ others = FALSE
    /\ pc = "idle"
    /\ err = None
    /\ raw_files = <<>>
    /\ ind = 0
    /\ scanned = {}
    /\ storage = <<>>
    /\ returned = FALSE
    /\ callerOps = 0

IdlePattern ==
    /\ doc = <<>>
    /\ graphs = "unset"
    /\ doc_graphs = <<>>
    /\ matches = "unset"
    /\ pos = <<>>
    /\ ppc = "idle"

IdleConfig ==
    /\ config = <<>>
    /\ cpc = "idle"
    /\ cerr = None

IdleEnv ==
    /\ fs0 = <<>>
    /\ fs = <<>>
    /\ epc = "idle"
    /\ eerr = None

IdleCrawler ==
    /\ urls = <<>>
    /\ fpc = "idle"
    /\ seedIdx = 0
    /\ response = None

InitCorpus ==
    /\ IdlePattern /\ IdleConfig /\ IdleEnv /\ IdleCrawler
    /\ pathKind \in {"missing", "file", "dir"}
    /\ files \in UNION {[S -> {0, 1}] : S \in SUBSET RawNames}
    /\ EmptyCount(files) <= MaxEmpty
    /\ others \in BOOLEAN
    /\ pathKind # "dir" => (DOMAIN files = {} /\ ~others)
    /\ pc = "new"
    /\ err = None
    /\ raw_files = <<>>
    /\ ind = 0
    /\ scanned = {}
    /\ storage = <<>>
    /\ returned = FALSE
    /\ callerOps = 0

NextCorpus ==
    \/ Construct
    \/ ValidateExists
    \/ ValidateIsDir
    \/ ValidateNotEmpty
    \/ ValidateGlob
    \/ ValidateFile
    \/ ScanFile
    \/ get_articles
    \/ CallerSet
    \/ CallerDel

SpecCorpus == InitCorpus /\ [][NextCorpus]_vars

-----------------------------------------------------------------------------
(* PatternSearchPipeline: _make_graphs and _find_pattern                   *)

POSTags == {"VERB", "NOUN"}
Relations == {"nsubj", "obj"}

\* a token of a sentence of n tokens: head position (0 is the root), POS, relation
Tokens(n) == [head : 0..n, upos : POSTags, deprel : Relations]
Sentences == UNION {[1..n -> Tokens(n)] : n \in 0..MaxTokens}
Docs == UNION {[1..k -> Sentences] : k \in 0..MaxSentences}

\* a sentence as a DiGraph: nodes 0..n, the tokens' POS, edges head -> token
SentenceGraph(s) ==
    [nodes |-> 0..Len(s),
     upos  |-> [i \in 1..Len(s) |-> s[i].upos],
     edges |-> {<<s[i].head, i, s[i].deprel>> : i \in 1..Len(s)}]
GraphLists == {[i \in 1..Len(d) |-> SentenceGraph(d[i])] : d \in Docs}
Patterns == POSTags \X Relations \X POSTags

\* lines 249-258: the body is the docstring alone, the call returns None
_make_graphs(d) == None

\* lines 273-282: the body is the docstring alone, the call returns None
_find_pattern(gs) == None

PatternOnly == UNCHANGED <<corpusVars, configVars, envVars, crawlerVars>>

MakeGraphs ==
    /\ ppc = "idle"
    /\ graphs' = _make_graphs(doc)
    /\ ppc' = "made"
    /\ UNCHANGED <<doc, doc_graphs, matches, pos>>
    /\ PatternOnly

FindPattern ==
    /\ ppc = "idle"
    /\ matches' = _find_pattern(doc_graphs)
    /\ ppc' = "found"
    /\ UNCHANGED <<doc, graphs, doc_graphs, pos>>
    /\ PatternOnly

InitGraphs ==
    /\ IdleCorpus /\ IdleConfig /\ IdleEnv /\ IdleCrawler
    /\ doc \in Docs
    /\ graphs = "unset"
    /\ doc_graphs = <<>>
    /\ matches = "unset"
    /\ pos = <<>>
    /\ ppc = "idle"

NextGraphs == MakeGraphs

SpecGraphs == InitGraphs /\ [][NextGraphs]_vars

InitPattern ==
    /\ IdleCorpus /\ IdleConfig /\ IdleEnv /\ IdleCrawler
    /\ doc = <<>>
    /\ graphs = "unset"
    /\ doc_graphs \in GraphLists
    /\ matches = "unset"
    /\ pos \in Patterns
    /\ ppc = "idle"

NextPattern == FindPattern

SpecPattern == InitPattern /\ [][NextPattern]_vars

-----------------------------------------------------------------------------
(* Config._validate_config_content                                         *)

MaxArticles == 150
MaxTimeout == 60

\* a url as <<scheme, rest>>
Urls == {<<"https://", "volga.news">>, <<"http://", "www.volga.news">>,
         <<"ftp://", "volga.news">>}
\* re.match(r"https?://(www.)?", seed_url)
re_match(url) == url[1] \in {"http://", "https://"}

\* a JSON value: its Python type and, for a number, its value
Py(t, v) == [type |-> t, val |-> v]
\* isinstance(x, int): bool is a subclass of int
isinstance_int(x) == x.type \in {"int", "bool"}

SeedValues == {Py("str", <<>>)} \cup
              {Py("list", u) : u \in UNION {[1..k -> Urls] : k \in 0..MaxSeeds}}
TotalValues == {Py("int", v) : v \in (0 - OverRange)..(MaxArticles + OverRange)}
               \cup {Py("bool", 0), Py("bool", 1), Py("float", 5), Py("str", 0)}
TimeoutValues == {Py("int", 0), Py("int", 5), Py("int", MaxTimeout), Py("str", 0)}

Configs == [seed_urls : SeedValues,
            total_articles : TotalValues,
            headers : {"dict", "list"},
            encoding : {"str", "int"},
            timeout : TimeoutValues,
            should_verify_certificate : {"bool", "str"},
            headless_mode : {"bool", "str"}]

\* lines 106-131: the exception raised, or None
_validate_config_content(c) ==
    IF c.seed_urls.type # "list" THEN "IncorrectSeedURLError"
    ELSE IF \E i \in 1..Len(c.seed_urls.val) : ~re_match(c.seed_urls.val[i])
         THEN "IncorrectSeedURLError"
    ELSE IF ~isinstance_int(c.total_articles) \/ c.total_articles.val <= 0
         THEN "IncorrectNumberOfArticlesError"
    ELSE IF ~(1 <= c.total_articles.val /\ c.total_articles.val <= MaxArticles)
         THEN "NumberOfArticlesOutOfRangeError"
    ELSE IF c.headers # "dict" THEN "IncorrectHeadersError"
    ELSE IF c.encoding # "str" THEN "IncorrectEncodingError"
    ELSE IF ~isinstance_int(c.timeout)
            \/ ~(0 < c.timeout.val /\ c.timeout.val < MaxTimeout)
         THEN "IncorrectTimeoutError"
    ELSE IF c.should_verify_certificate # "bool" \/ c.headless_mode # "bool"
         THEN "IncorrectVerifyError"
    ELSE None

ConfigOnly == UNCHANGED <<corpusVars, patternVars, envVars, crawlerVars>>

\* Config.__init__, line 78
ValidateConfig ==
    /\ cpc = "loaded"
    /\ cerr' = _validate_config_content(config)
    /\ cpc' = "validated"
    /\ UNCHANGED config
    /\ ConfigOnly

InitConfig ==
    /\ IdleCorpus /\ IdlePattern /\ IdleEnv /\ IdleCrawler
    /\ config \in Configs
    /\ cpc = "loaded"
    /\ cerr = None

NextConfig == ValidateConfig

SpecConfig == InitConfig /\ [][NextConfig]_vars

-----------------------------------------------------------------------------
(* prepare_environment                                                     *)

\* ASSETS_PATH relative to the project root
base_path == <<"tmp", "articles">>
Parent(p) == SubSeq(p, 1, Len(p) - 1)
\* p is q or an ancestor of q
IsPrefix(p, q) == Len(p) <= Len(q) /\ SubSeq(q, 1, Len(p)) = p

EnvPaths == {Parent(base_path), base_path,
             base_path \o <<"1_raw.txt">>, base_path \o <<"old">>,
             <<"tmp", "notes.txt">>, <<"tmp", "other">>, <<"tmp", "other", "x">>}

\* every entry below the root lies in a directory
WellFormed(f) ==
    \A p \in DOMAIN f : Len(p) > 1 => (Parent(p) \in DOMAIN f /\ f[Parent(p)] = "dir")

\* path.exists()
exists(f, p) == p \in DOMAIN f

\* shutil.rmtree(p): p and all below it are gone
rmtree(f, p) == [q \in {x \in DOMAIN f : ~IsPrefix(p, x)} |-> f[q]]

Ancestors(p) == {SubSeq(p, 1, k) : k \in 1..(Len(p) - 1)}

\* the exception of path.mkdir(parents=True), or None
mkdir_error(f, p) ==
    IF exists(f, p) THEN "FileExistsError"
    ELSE IF \E a \in Ancestors(p) : exists(f, a) /\ f[a] = "file"
         THEN "NotADirectoryError"
    ELSE None

\* the file system after a successful path.mkdir(parents=True)
mkdir(f, p) ==
    [q \in DOMAIN f \cup Ancestors(p) \cup {p} |->
        IF q \in DOMAIN f THEN f[q] ELSE "dir"]

\* the path line 348 removes: base_path.parent
Removed(p) == Parent(p)

EnvOnly == UNCHANGED <<corpusVars, patternVars, configVars, crawlerVars>>

\* lines 347-348
PrepareRemove ==
    /\ epc = "call"
    /\ fs' = IF exists(fs, base_path) THEN rmtree(fs, Removed(base_path)) ELSE fs
    /\ epc' = "mkdir"
    /\ UNCHANGED <<fs0, eerr>>
    /\ EnvOnly

\* line 349
PrepareMkdir ==
    /\ epc = "mkdir"
    /\ IF mkdir_error(fs, base_path) # None
       THEN /\ eerr' = mkdir_error(fs, base_path)
            /\ epc' = "failed"
            /\ UNCHANGED fs
       ELSE /\ fs' = mkdir(fs, base_path)
            /\ epc' = "done"
            /\ UNCHANGED eerr
    /\ UNCHANGED fs0
    /\ EnvOnly

InitEnv ==
    /\ IdleCorpus /\ IdlePattern /\ IdleConfig /\ IdleCrawler
    /\ fs \in UNION {[S -> {"dir", "file"}] : S \in SUBSET EnvPaths}
    /\ WellFormed(fs)
    /\ fs0 = fs
    /\ epc = "call"
    /\ eerr = None

NextEnv ==
    \/ PrepareRemove
    \/ PrepareMkdir

SpecEnv == InitEnv /\ [][NextEnv]_vars

-----------------------------------------------------------------------------
(* Crawler.find_articles                                                   *)

\* line 230
url_pattern == "https://volga.news"

\* the hrefs of the b-news-item__title divs of a seed page, in page order
Bodies == {<<>>, <<"/a", "/b">>}
\* what make_request gives for a seed: a response with its ok flag and body
Responses == {[ok |-> FALSE, body |-> <<>>]} \cup {[ok |-> TRUE, body |-> b] : b \in Bodies}

\* lines 242-245: the href of the last title div, or '', after url_pattern
_extract_url(article_bs) ==
    <<url_pattern, IF Len(article_bs) = 0 THEN "" ELSE article_bs[Len(article_bs)]>>

\* the configs that passed _validate_config_content, up to MaxCrawl articles
CrawlConfigs ==
    {c \in [seed_urls : SeedValues,
            total_articles : {Py("int", v) : v \in 1..MaxCrawl} \cup {Py("bool", 1)},
            headers : {"dict"},
            encoding : {"str"},
            timeout : {Py("int", 5)},
            should_verify_certificate : {"bool"},
            headless_mode : {"bool"}] : _validate_config_content(c) = None}

\* Config.get_num_articles, Config.get_seed_urls / Crawler.get_search_urls
get_num_articles == config.total_articles.val
get_search_urls == config.seed_urls.val

CrawlerOnly == UNCHANGED <<corpusVars, patternVars, configVars, envVars>>

\* lines 228-230: self.urls = []
NewCrawler ==
    /\ fpc = "new"
    /\ urls' = <<>>
    /\ fpc' = "while"
    /\ UNCHANGED <<seedIdx, response>>
    /\ CrawlerOnly

\* the test of line 251
WhileConditionLe == Len(urls) <= get_num_articles
WhileCondition == Len(urls) < get_num_articles

\* line 251: enter a pass over the seeds, or return
WhileTest ==
    /\ fpc = "while"
    /\ IF WhileCondition
       THEN fpc' = "for" /\ seedIdx' = 1
       ELSE fpc' = "returned" /\ UNCHANGED seedIdx
    /\ UNCHANGED <<urls, response>>
    /\ CrawlerOnly

\* lines 252-258: one iteration of the for loop with the response r
SeedRequest ==
    /\ fpc = "for"
    /\ seedIdx <= Len(get_search_urls)
    /\ \E r \in Responses :
           /\ response' = r
           /\ urls' = IF ~r.ok THEN urls ELSE Append(urls, _extract_url(r.body))
    /\ seedIdx' = seedIdx + 1
    /\ UNCHANGED fpc
    /\ CrawlerOnly

\* line 253: make_request raises (timeout, connection error); so does find_articles
SeedRequestRaises ==
    /\ fpc = "for"
    /\ seedIdx <= Len(get_search_urls)
    /\ fpc' = "failed"
    /\ UNCHANGED <<urls, seedIdx, response>>
    /\ CrawlerOnly

\* line 252: the seeds are exhausted, back to the test of line 251
PassEnds ==
    /\ fpc = "for"
    /\ seedIdx > Len(get_search_urls)
    /\ fpc' = "while"
    /\ UNCHANGED <<urls, seedIdx, response>>
    /\ CrawlerOnly

InitCrawler ==
    /\ IdleCorpus /\ IdlePattern /\ IdleEnv
    /\ config \in CrawlConfigs
    /\ cpc = "validated"
    /\ cerr = None
    /\ urls = <<>>
    /\ fpc = "new"
    /\ seedIdx = 0
    /\ response = None

NextCrawler ==
    \/ NewCrawler
    \/ WhileTest
    \/ SeedRequest
    \/ SeedRequestRaises
    \/ PassEnds

SpecCrawler == InitCrawler /\ [][NextCrawler]_vars

-----------------------------------------------------------------------------
(* Properties of CorpusManager                                             *)

IdsOf(f) == {get_article_id_from_filepath(n) : n \in DOMAIN f}
NumFiles == Cardinality(DOMAIN files)
\* the raw files carry exactly the ids 1..N, each once, N >= 1
IdsExact == NumFiles >= 1 /\ IdsOf(files) = 1..NumFiles
AllNonEmpty == \A n \in DOMAIN files : files[n] > 0
ValidCorpus == pathKind = "dir" /\ IdsExact /\ AllNonEmpty
InconsistentCorpus ==
    pathKind = "dir" /\ DOMAIN files # {} /\ (~IdsExact \/ ~AllNonEmpty)
ValidationPcs == {"v_exists", "v_isdir", "v_any", "v_glob", "v_loop"}
\* storage holds one record per raw file, under the file's id, with its text
StorageIsCorpus ==
    /\ DOMAIN storage = IdsOf(files)
    /\ Cardinality(DOMAIN storage) = NumFiles
    /\ \A n \in DOMAIN files :
           storage[get_article_id_from_filepath(n)] =
               Article(get_article_id_from_filepath(n), n)

\* C1: for every directory whose raw files carry exactly the ids 1..N (any
\* N >= 1) and are non-empty, construction does not fail, the files are
\* checked in the order of their numeric ids, and the finished CorpusManager
\* holds exactly N records keyed by 1..N.
C1_ValidCorpusLoads ==
    ValidCorpus =>
        /\ pc # "failed"
        /\ pc = "v_loop" =>
               \A i \in 1..Len(raw_files) :
                   get_article_id_from_filepath(raw_files[i]) = i
        /\ (pc = "done" /\ ~returned) =>
               (DOMAIN storage = 1..NumFiles /\ StorageIsCorpus)

\* C2: for every existing directory with raw files whose ids are not exactly
\* 1..N (a gap or a duplicate) or with a zero-length raw file, construction
\* never reaches the scan nor completes, the validation loop never runs off
\* its end, the only exception is InconsistentDatasetError and the storage
\* stays empty.
C2_InconsistentFails ==
    InconsistentCorpus =>
        /\ pc \notin {"s_loop", "done"}
        /\ pc = "v_loop" => ind <= Len(raw_files)
        /\ pc = "failed" => err = "InconsistentDatasetError"
        /\ DOMAIN storage = {}

C2_Witness ==
    /\ InconsistentCorpus
    /\ IdsOf(files) = {1, 2, 4}
    /\ AllNonEmpty
    /\ pc = "failed"
    /\ err = "InconsistentDatasetError"

\* what both versions of C3 say, with the exception for a missing path as e
PathChecks(e) ==
    /\ pathKind = "missing" =>
           /\ pc \in {"new", "v_exists", "failed"}
           /\ pc = "failed" => err = e
    /\ pathKind = "file" =>
           /\ pc \in {"new", "v_exists", "v_isdir", "failed"}
           /\ pc = "failed" => err = "NotADirectoryError"
    /\ pathKind # "dir" =>
           raw_files = <<>> /\ ind = 0 /\ scanned = {} /\ DOMAIN storage = {}

\* C3 (as amended): construction on a missing path fails with the built-in
\* FileNotFoundError, on a path that is not a directory with
\* NotADirectoryError; the existence check comes first and both come before
\* any file is listed or inspected.
C3_PathChecksFileNotFound == PathChecks("FileNotFoundError")

\* C3 (as claimed): the exception for a missing path is DirectoryNotFoundError.
C3_PathChecksAsClaimed == PathChecks("DirectoryNotFoundError")

C3_Witness == pathKind = "missing" /\ pc = "failed" /\ err = "FileNotFoundError"

\* C4: on an existing directory without any raw file (empty, or holding only
\* other files) construction fails with EmptyDirectoryError and never
\* completes with an empty mapping.
C4_NoRawFilesFails ==
    (pathKind = "dir" /\ DOMAIN files = {}) =>
        /\ pc \notin {"s_loop", "done"}
        /\ pc = "failed" => err = "EmptyDirectoryError"

\* C5: the storage holds no record while validation has not started, is
\* running or has failed; the scan starts only after the validation loop has
\* gone through every raw file; and the finished CorpusManager, before any
\* caller touches it, holds one record per raw file.
C5_ValidationBeforeStorage ==
    /\ pc \in ValidationPcs \cup {"new", "failed"} => DOMAIN storage = {}
    /\ pc \in {"s_loop", "done"} =>
           (raw_files = sorted(glob) /\ ind = Len(raw_files) + 1)
    /\ (pc = "done" /\ ~returned) => StorageIsCorpus

C5_Witness ==
    /\ pc = "done"
    /\ ~returned
    /\ NumFiles >= 2
    /\ DOMAIN storage = 1..NumFiles

\* C6: whatever a caller does with the mapping get_articles() returned, the
\* CorpusManager built from a corpus with the ids 1..N holds exactly the ids
\* 1..N.
C6_StorageReadOnly ==
    (ValidCorpus /\ pc = "done") => DOMAIN storage = 1..NumFiles

-----------------------------------------------------------------------------
(* Properties of PatternSearchPipeline                                     *)

RECURSIVE Ascending(_)
\* the numbers of S in ascending order
Ascending(S) ==
    IF S = {} THEN <<>>
    ELSE LET m == CHOOSE x \in S : \A y \in S : x <= y
         IN  <<m>> \o Ascending(S \ {m})

TokenNodes(g) == g.nodes \ {0}
\* the direct children of r with the pattern's child POS
QualifyingChildren(g, r) ==
    {c \in TokenNodes(g) : (\E e \in g.edges : e[1] = r /\ e[2] = c) /\ g.upos[c] = pos[3]}
MatchRoots(g) ==
    {r \in TokenNodes(g) : g.upos[r] = pos[1] /\ QualifyingChildren(g, r) # {}}
TreeNode(g, n, children) == [node_id |-> n, upos |-> g.upos[n], children |-> children]
MatchTree(g, r) ==
    LET cs == Ascending(QualifyingChildren(g, r))
    IN  TreeNode(g, r, [i \in 1..Len(cs) |-> TreeNode(g, cs[i], <<>>)])
MatchTrees(g) ==
    LET rs == Ascending(MatchRoots(g))
    IN  [i \in 1..Len(rs) |-> MatchTree(g, rs[i])]

\* C7: _find_pattern returns a mapping whose keys are exactly the 0-based
\* indices of the sentences with a match and whose value for a sentence is
\* one MatchTree per qualifying root, each with all the root's qualifying
\* direct children (and nothing deeper), in token-position order.
C7_FindPatternResult ==
    ppc = "found" =>
        /\ matches # None
        /\ DOMAIN matches =
               {i - 1 : i \in {j \in 1..Len(doc_graphs) : MatchRoots(doc_graphs[j]) # {}}}
        /\ \A k \in DOMAIN matches : matches[k] = MatchTrees(doc_graphs[k + 1])

\* C8: _make_graphs returns one graph per sentence, in document order, and
\* in each graph every token node has exactly one incoming edge, which comes
\* from the token's head position.
C8_OneGraphPerSentence ==
    ppc = "made" =>
        /\ graphs # None
        /\ Len(graphs) = Len(doc)
        /\ \A i \in 1..Len(doc) : \A t \in 1..Len(doc[i]) :
               {e[1] : e \in {x \in graphs[i].edges : x[2] = t}} = {doc[i][t].head}

-----------------------------------------------------------------------------
(* Properties of Config                                                    *)

SeedsValid(c) ==
    /\ c.seed_urls.type = "list"
    /\ \A i \in 1..Len(c.seed_urls.val) : re_match(c.seed_urls.val[i])

\* C9: with valid seed urls, every integer total number of articles outside
\* 1..150 raises NumberOfArticlesOutOfRangeError, and
\* IncorrectNumberOfArticlesError is raised only for a value that is not an
\* integer.
C9_ArticlesErrors ==
    (cpc = "validated" /\ SeedsValid(config)) =>
        /\ (config.total_articles.type = "int"
            /\ config.total_articles.val \notin 1..MaxArticles)
               => cerr = "NumberOfArticlesOutOfRangeError"
        /\ cerr = "IncorrectNumberOfArticlesError"
               => config.total_articles.type # "int"

-----------------------------------------------------------------------------
(* Properties of prepare_environment                                       *)

\* C10: after the call base_path is an empty directory, and every entry of
\* the file system outside base_path is as it was before the call.
C10_OnlyBaseRecreated ==
    epc = "done" =>
        /\ exists(fs, base_path) /\ fs[base_path] = "dir"
        /\ \A q \in DOMAIN fs : IsPrefix(base_path, q) => q = base_path
        /\ \A q \in DOMAIN fs0 :
               ~IsPrefix(base_path, q) => (exists(fs, q) /\ fs[q] = fs0[q])

-----------------------------------------------------------------------------
(* Properties of Crawler.find_articles                                     *)

\* a step that makes a seed request
IsSeedRequest == fpc = "for" /\ seedIdx <= Len(get_search_urls) /\ fpc' = "for"

\* urls changes only by a seed request, which appends exactly one entry when
\* its response is ok and leaves urls alone when it is not
UrlsGrowth ==
    /\ (IsSeedRequest /\ response'.ok) =>
           (Len(urls') = Len(urls) + 1 /\ SubSeq(urls', 1, Len(urls)) = urls)
    /\ (IsSeedRequest /\ ~response'.ok) => urls' = urls
    /\ ~IsSeedRequest => urls' = urls

\* find_articles returns only with len(urls) between num_articles and
\* num_articles + len(seed_urls) - 1
ReturnBounds ==
    fpc = "returned" =>
        /\ Len(urls) >= get_num_articles
        /\ Len(urls) <= get_num_articles + Len(get_search_urls) - 1

\* C11: in find_articles urls only grows, by exactly one entry per seed
\* request with an ok response and by none for a failed one; the method
\* returns only with len(urls) >= num_articles, and then len(urls) is at most
\* num_articles + len(seed_urls) - 1.
C11_FindArticles == [][UrlsGrowth]_vars /\ []ReturnBounds

\* the method has returned with more urls than asked for, the most possible
C11_Witness ==
    /\ fpc = "returned"
    /\ Len(get_search_urls) >= 2
    /\ Len(urls) = get_num_articles + Len(get_search_urls) - 1
    /\ response.ok

====
